---- MODULE Spec2Model ----
(***************************************************************************)
(* RollingWindow of core/collection/rollingwindow.go: a ring of buckets    *)
(* that slides lazily on the clock readings made by Add, read by Reduce,   *)
(* guarded by one sync.RWMutex.  Time is counted in clock ticks; a bucket  *)
(* Sum is float64 in the code and holds small whole numbers here, which    *)
(* float64 adds exactly.                                                   *)
(***************************************************************************)
EXTENDS Integers, Naturals, Sequences, FiniteSets, TLC

\* ---- bounds of the model ----
NumProcs == 2        \* goroutines calling Add and Reduce
MaxSize == 3         \* window sizes 1..MaxSize
Interval == 2        \* ticks in one bucket interval
StartTick == 1       \* clock reading at construction
MaxTime == 7         \* the clock stops advancing here
MaxAdds == 2         \* Add calls in one behaviour
MaxValue == 2        \* Add values 1..MaxValue

Procs == 1..NumProcs
AddValues == 1..MaxValue
NoProc == 0
NoTime == -1

VARIABLES
    size,           \* rw.size
    interval,       \* rw.interval
    ignoreCurrent,  \* rw.ignoreCurrent
    offset,         \* rw.offset
    lastTime,       \* rw.lastTime
    buckets,        \* rw.win.buckets: slot -> [Sum, Count]
    writer,         \* rw.lock: the goroutine holding Lock, or NoProc
    readers,        \* rw.lock: the goroutines holding RLock
    now,            \* the clock, timex.Now()
    pc,             \* each goroutine's position
    call,           \* each goroutine's running Add: its value, its local span, its latest
                    \* clock reading, the bucket fields it has loaded
    startTime,      \* history: the clock reading NewRollingWindow stored
    held,           \* history: slot -> the time slices of the Adds whose values the bucket holds
    lastAt,         \* history: the latest clock reading of the latest Add that returned
    lastRet,        \* history: the time at which the latest Add returned
    prevSlice,      \* history: the time slice of the Add that returned before that one
    sumArgs,        \* history: the sum of the values of the Adds that returned
    nAdds,          \* history: Add calls made so far
    adders,         \* history: the goroutines that have called Add
    red             \* the buckets fn was called with, and when, if the latest step was a
                    \* Reduce visiting its buckets

vars == <<size, interval, ignoreCurrent, offset, lastTime, buckets, writer, readers,
          now, pc, call, startTime, held, lastAt, lastRet, prevSlice, sumArgs, nAdds, adders, red>>

rwState == <<size, interval, ignoreCurrent, offset, lastTime, buckets>>
history == <<startTime, held, lastAt, lastRet, prevSlice, sumArgs, nAdds, adders>>

\* ---- Go integer arithmetic: / truncates toward zero, % takes the dividend's sign ----
GoDiv(a, b) == IF a >= 0 THEN a \div b ELSE -((-a) \div b)
GoMod(a, b) == a - b * GoDiv(a, b)

\* ---- Bucket ----
NewBucket == [Sum |-> 0, Count |-> 0]

\* Bucket.add with its two fields swapped: Sum++ and Count += v
BucketAddSwapped(b, v) == [Sum |-> b.Sum + 1, Count |-> b.Count + v]

BucketAdd(b, v) == [Sum |-> b.Sum + v, Count |-> b.Count + 1]

BucketReset(b) == [Sum |-> 0, Count |-> 0]

\* ---- window ----
Slots == 0..(size - 1)

newWindow(n) == [s \in 0..(n - 1) |-> NewBucket]

resetBucket(bs, off) == [bs EXCEPT ![off % size] = BucketReset(bs[off % size])]

\* window.reduce walking the ring backwards, from start + count - 1 down to start
winReduceBackwards(bs, start, count) ==
    [i \in 1..count |-> [slot |-> (start + count - i) % size,
                         Sum |-> bs[(start + count - i) % size].Sum,
                         Count |-> bs[(start + count - i) % size].Count]]

\* window.reduce: the buckets fn is called with, in call order
winReduce(bs, start, count) ==
    [i \in 1..count |-> [slot |-> (start + i - 1) % size,
                         Sum |-> bs[(start + i - 1) % size].Sum,
                         Count |-> bs[(start + i - 1) % size].Count]]

\* ---- RollingWindow ----
\* span() with 0 < offset for 0 <= offset: no elapsed interval counts as a stale window
spanStrict(t) ==
    LET off == GoDiv(t - lastTime, interval)
    IN  IF 0 < off /\ off < size THEN off ELSE size

\* span() clamping to size - 1: a stale window keeps one bucket
spanClampLow(t) ==
    LET off == GoDiv(t - lastTime, interval)
    IN  IF 0 <= off /\ off < size THEN off ELSE size - 1

\* span() without the clamp to rw.size: every elapsed interval counts
spanUnclamped(t) ==
    LET off == GoDiv(t - lastTime, interval)
    IN  IF 0 <= off THEN off ELSE size

\* span(), reading the clock at t
span(t) ==
    LET off == GoDiv(t - lastTime, interval)
    IN  IF 0 <= off /\ off < size THEN off ELSE size

\* the reset loop with i <= span for i < span: one bucket too many is reset
RECURSIVE resetExpiredOneMore(_, _, _, _)
resetExpiredOneMore(bs, off, sp, i) ==
    IF i <= sp THEN resetExpiredOneMore(resetBucket(bs, off + i + 1), off, sp, i + 1) ELSE bs

\* the reset loop with offset + i for offset + i + 1: the active bucket is reset
RECURSIVE resetExpiredFromOffset(_, _, _, _)
resetExpiredFromOffset(bs, off, sp, i) ==
    IF i < sp THEN resetExpiredFromOffset(resetBucket(bs, off + i), off, sp, i + 1) ELSE bs

\* the reset loop skipping the bucket at rw.offset
RECURSIVE resetExpiredSparesOffset(_, _, _, _)
resetExpiredSparesOffset(bs, off, sp, i) ==
    IF i < sp
    THEN resetExpiredSparesOffset(IF (off + i + 1) % size = off % size
                                  THEN bs ELSE resetBucket(bs, off + i + 1), off, sp, i + 1)
    ELSE bs

\* the reset loop of updateOffset
RECURSIVE resetExpired(_, _, _, _)
resetExpired(bs, off, sp, i) ==
    IF i < sp THEN resetExpired(resetBucket(bs, off + i + 1), off, sp, i + 1) ELSE bs

\* the time slice of clock reading t, counted from the construction time
Slice(t) == (t - startTime) \div interval

NoCall == [v |-> 0, span |-> 0, at |-> NoTime, b |-> NewBucket]
NoReduce == [done |-> FALSE, slice |-> NoTime, visited |-> <<>>]

\* NewRollingWindow(size, interval, opts...)
Init ==
    /\ size \in 1..MaxSize
    /\ interval = Interval
    /\ ignoreCurrent \in BOOLEAN
    /\ now = StartTick
    /\ offset = 0
    /\ lastTime = now
    /\ startTime = now
    /\ buckets = newWindow(size)
    /\ held = [s \in 0..(size - 1) |-> <<>>]
    /\ writer = NoProc
    /\ readers = {}
    /\ pc = [p \in Procs |-> "idle"]
    /\ call = [p \in Procs |-> NoCall]
    /\ lastAt = NoTime
    /\ lastRet = NoTime
    /\ prevSlice = NoTime
    /\ sumArgs = 0
    /\ nAdds = 0
    /\ adders = {}
    /\ red = NoReduce

\* the clock advances
Tick ==
    /\ now < MaxTime
    /\ now' = now + 1
    /\ red' = NoReduce
    /\ UNCHANGED <<rwState, writer, readers, pc, call, history>>

\* Add without rw.lock.Lock()
CanLockMissing == TRUE

\* Reduce without rw.lock.RLock()
CanRLockMissing == TRUE

\* rw.lock.Lock() returns only when no goroutine holds the lock
CanLock == writer = NoProc /\ readers = {}

\* rw.lock.RLock() returns only when no goroutine holds the write lock
CanRLock == writer = NoProc

\* Add(v): rw.lock.Lock() returns; updateOffset reads span := rw.span(), the first
\* clock reading, and returns if span <= 0
AddBegin(p, v) ==
    /\ pc[p] = "idle"
    /\ nAdds < MaxAdds
    /\ CanLock
    /\ writer' = p
    /\ nAdds' = nAdds + 1
    /\ adders' = adders \cup {p}
    /\ call' = [call EXCEPT ![p] = [v |-> v, span |-> span(now), at |-> now, b |-> NewBucket]]
    /\ pc' = [pc EXCEPT ![p] = IF span(now) <= 0 THEN "aAdd" ELSE "aReset"]
    /\ red' = NoReduce
    /\ UNCHANGED <<rwState, readers, now, startTime, held, lastAt, lastRet, prevSlice, sumArgs>>

\* updateOffset advancing rw.offset without taking it modulo rw.size
AddResetNoWrap(p) ==
    /\ pc[p] = "aReset"
    /\ buckets' = resetExpired(buckets, offset, call[p].span, 0)
    /\ held' = [s \in Slots |-> IF buckets'[s].Count = 0 THEN <<>> ELSE held[s]]
    /\ offset' = offset + call[p].span
    /\ pc' = [pc EXCEPT ![p] = "aAlign"]
    /\ red' = NoReduce
    /\ UNCHANGED <<size, interval, ignoreCurrent, lastTime, writer, readers, now, call,
                   startTime, lastAt, lastRet, prevSlice, sumArgs, nAdds, adders>>

\* updateOffset resetting the expired buckets without advancing rw.offset
AddResetKeepsOffset(p) ==
    /\ pc[p] = "aReset"
    /\ buckets' = resetExpired(buckets, offset, call[p].span, 0)
    /\ held' = [s \in Slots |-> IF buckets'[s].Count = 0 THEN <<>> ELSE held[s]]
    /\ offset' = offset
    /\ pc' = [pc EXCEPT ![p] = "aAlign"]
    /\ red' = NoReduce
    /\ UNCHANGED <<size, interval, ignoreCurrent, lastTime, writer, readers, now, call,
                   startTime, lastAt, lastRet, prevSlice, sumArgs, nAdds, adders>>

\* updateOffset: reset the expired buckets and advance rw.offset
AddReset(p) ==
    /\ pc[p] = "aReset"
    /\ buckets' = resetExpired(buckets, offset, call[p].span, 0)
    /\ held' = [s \in Slots |-> IF buckets'[s].Count = 0 THEN <<>> ELSE held[s]]
    /\ offset' = (offset + call[p].span) % size
    /\ pc' = [pc EXCEPT ![p] = "aAlign"]
    /\ red' = NoReduce
    /\ UNCHANGED <<size, interval, ignoreCurrent, lastTime, writer, readers, now, call,
                   startTime, lastAt, lastRet, prevSlice, sumArgs, nAdds, adders>>

\* updateOffset: now := timex.Now(), the second clock reading; align rw.lastTime
AddAlign(p) ==
    /\ pc[p] = "aAlign"
    /\ lastTime' = now - GoMod(now - lastTime, interval)
    /\ call' = [call EXCEPT ![p].at = now]
    /\ pc' = [pc EXCEPT ![p] = "aAdd"]
    /\ red' = NoReduce
    /\ UNCHANGED <<size, interval, ignoreCurrent, offset, buckets, writer, readers, now, history>>

\* Add: rw.win.add(rw.offset, v) loads the Sum and Count of the bucket at rw.offset
AddLoad(p) ==
    /\ pc[p] = "aAdd"
    /\ call' = [call EXCEPT ![p].b = buckets[offset % size]]
    /\ pc' = [pc EXCEPT ![p] = "aStore"]
    /\ red' = NoReduce
    /\ UNCHANGED <<rwState, writer, readers, now, history>>

\* Add: Bucket.add stores Sum + v and Count + 1, then the deferred rw.lock.Unlock()
AddStore(p) ==
    /\ pc[p] = "aStore"
    /\ buckets' = [buckets EXCEPT ![offset % size] = BucketAdd(call[p].b, call[p].v)]
    /\ held' = [s \in Slots |-> IF buckets'[s] = buckets[s] THEN held[s]
                                ELSE Append(held[s], Slice(call[p].at))]
    /\ lastAt' = call[p].at
    /\ lastRet' = now
    /\ prevSlice' = IF lastAt = NoTime THEN NoTime ELSE Slice(lastAt)
    /\ sumArgs' = sumArgs + call[p].v
    /\ writer' = IF writer = p THEN NoProc ELSE writer
    /\ pc' = [pc EXCEPT ![p] = "idle"]
    /\ call' = [call EXCEPT ![p] = NoCall]
    /\ red' = NoReduce
    /\ UNCHANGED <<size, interval, ignoreCurrent, offset, lastTime, readers, now,
                   startTime, nAdds, adders>>

\* Reduce(fn): rw.lock.RLock() returns
ReduceRLock(p) ==
    /\ pc[p] = "idle"
    /\ CanRLock
    /\ readers' = readers \cup {p}
    /\ pc' = [pc EXCEPT ![p] = "rBody"]
    /\ red' = NoReduce
    /\ UNCHANGED <<rwState, writer, now, call, history>>

\* Reduce without the ignoreCurrent branch
reduceDiffNoIgnore(sp) == size - sp

\* Reduce with diff = rw.size for diff = rw.size - 1 in the ignoreCurrent branch
reduceDiffKeepsCurrent(sp) == IF sp = 0 /\ ignoreCurrent THEN size ELSE size - sp

\* the number of buckets Reduce visits
reduceDiff(sp) == IF sp = 0 /\ ignoreCurrent THEN size - 1 ELSE size - sp

\* Reduce starting at offset + span for offset + span + 1
reduceVisitFromSpan(t) ==
    IF reduceDiff(span(t)) > 0
    THEN winReduce(buckets, (offset + span(t)) % size, reduceDiff(span(t)))
    ELSE <<>>

\* the buckets Reduce calls fn with, reading the clock at t
reduceVisit(t) ==
    IF reduceDiff(span(t)) > 0
    THEN winReduce(buckets, (offset + span(t) + 1) % size, reduceDiff(span(t)))
    ELSE <<>>

\* Reduce calling updateOffset before it visits: a lazy reset on the read path
ReduceBodyLazyReset(p) ==
    /\ pc[p] = "rBody"
    /\ buckets' = resetExpired(buckets, offset, span(now), 0)
    /\ held' = [s \in Slots |-> IF buckets'[s].Count = 0 THEN <<>> ELSE held[s]]
    /\ offset' = (offset + span(now)) % size
    /\ lastTime' = now - GoMod(now - lastTime, interval)
    /\ red' = [done |-> TRUE, slice |-> Slice(now),
               visited |-> winReduce(buckets', (offset' + 1) % size, reduceDiff(0))]
    /\ readers' = readers \ {p}
    /\ pc' = [pc EXCEPT ![p] = "idle"]
    /\ UNCHANGED <<size, interval, ignoreCurrent, writer, now, call, startTime, lastAt,
                   lastRet, prevSlice, sumArgs, nAdds, adders>>

\* Reduce: read the clock in span(), visit the buckets, then the deferred rw.lock.RUnlock()
ReduceBody(p) ==
    /\ pc[p] = "rBody"
    /\ red' = [done |-> TRUE, slice |-> Slice(now), visited |-> reduceVisit(now)]
    /\ readers' = readers \ {p}
    /\ pc' = [pc EXCEPT ![p] = "idle"]
    /\ UNCHANGED <<rwState, writer, now, call, history>>

Next ==
    \/ Tick
    \/ \E p \in Procs, v \in AddValues : AddBegin(p, v)
    \/ \E p \in Procs : AddReset(p)
    \/ \E p \in Procs : AddAlign(p)
    \/ \E p \in Procs : AddLoad(p)
    \/ \E p \in Procs : AddStore(p)
    \/ \E p \in Procs : ReduceRLock(p)
    \/ \E p \in Procs : ReduceBody(p)

Spec == Init /\ [][Next]_vars

\* ---- the steps and results the properties speak of ----
\* the step in which goroutine p's Reduce reads the clock and calls fn
ReduceRuns(p) == pc[p] = "rBody" /\ pc'[p] = "idle"

\* the step in which goroutine p's Add slides the window
AddSlides(p) == pc[p] = "aReset" /\ pc'[p] = "aAlign"

\* the step in which goroutine p's Add writes its value and returns
AddWrites(p) == pc[p] = "aStore" /\ pc'[p] = "idle"

\* the slots a Reduce result r visited
SeenSlots(r) == {r.visited[i].slot : i \in DOMAIN r.visited}

\* the number of times a Reduce result r visited slot s
TimesSeen(r, s) == Cardinality({i \in DOMAIN r.visited : r.visited[i].slot = s})

\* the time slices of the Adds whose values the bucket at slot s holds
HeldSlices(s) == {held[s][k] : k \in DOMAIN held[s]}

RECURSIVE TotalCount(_)
TotalCount(S) ==
    IF S = {} THEN 0 ELSE LET s == CHOOSE x \in S : TRUE IN buckets[s].Count + TotalCount(S \ {s})

RECURSIVE TotalSum(_)
TotalSum(S) ==
    IF S = {} THEN 0 ELSE LET s == CHOOSE x \in S : TRUE IN buckets[s].Sum + TotalSum(S \ {s})

\* C1: no bucket a Reduce visits holds the value of an Add made size or more time
\* slices before the slice in which the Reduce reads the clock.
C1_NoStaleVisited ==
    [][\A p \in Procs : ReduceRuns(p) =>
          \A s \in SeenSlots(red') : \A a \in HeldSlices(s) : Slice(now) - a < size]_vars

\* C2: an Add changes exactly one bucket, the one at offset after the slide, by
\* Count + 1 and Sum + v, and that bucket stands for the time slice of the Add's latest
\* clock reading; a slide discards only values of Adds made size or more slices before;
\* buckets change in no other step; and with ignoreCurrent = false a Reduce visits
\* exactly once every bucket holding the value of an Add made fewer than size slices
\* before.
C2_AddNeverLostNorDoubled ==
    [][/\ \A p \in Procs : AddWrites(p) =>
            /\ buckets' = [buckets EXCEPT ![offset] = [Sum |-> @.Sum + call[p].v,
                                                       Count |-> @.Count + 1]]
            /\ Slice(lastTime) = Slice(call[p].at)
       /\ \A p \in Procs : AddSlides(p) =>
            \A s \in Slots : buckets'[s] # buckets[s] =>
                \A a \in HeldSlices(s) : Slice(call[p].at) - a >= size
       /\ buckets' # buckets => \E p \in Procs : AddWrites(p) \/ AddSlides(p)
       /\ \A p \in Procs : (ReduceRuns(p) /\ ~ignoreCurrent) =>
            \A s \in Slots : (\E a \in HeldSlices(s) : Slice(now) - a < size) =>
                TimesSeen(red', s) = 1]_vars

\* C2 witness: after two Adds and a slide between them, a Reduce has visited once the
\* bucket of the value added size - 1 slices before, and once the bucket at offset
\* holding the value added in the slice of the Reduce.
C2_Witness ==
    /\ red.done /\ ~ignoreCurrent /\ size = MaxSize
    /\ \E s \in Slots : /\ buckets[s].Count = 1
                        /\ HeldSlices(s) = {Slice(now) - (size - 1)}
                        /\ TimesSeen(red, s) = 1
    /\ HeldSlices(offset) = {Slice(now)}
    /\ TimesSeen(red, offset) = 1

\* C3: when every Add was made in the slice of the construction (no slide) and all
\* calls have returned, the Counts of all buckets add up to the number of Add calls
\* the goroutines made, and the Sums to the sum of their values.
C3_ConcurrentAddsCounted ==
    ((\A p \in Procs : pc[p] \in {"idle", "rBody"}) /\ lastTime = startTime) =>
        /\ TotalCount(Slots) = nAdds
        /\ TotalSum(Slots) = sumArgs

\* C3 witness: every goroutine has made an Add, MaxAdds in all, none has slid the window.
C3_Witness ==
    /\ \A p \in Procs : pc[p] = "idle" /\ p \in adders
    /\ lastTime = startTime
    /\ nAdds = MaxAdds
    /\ TotalCount(Slots) = MaxAdds

\* a goroutine is inside Add's critical section
InAdd(p) == pc[p] \in {"aReset", "aAlign", "aAdd", "aStore"}

\* C4: the critical section of an Add overlaps no other Add and no Reduce traversal,
\* and offset, lastTime and the buckets change only in steps of the one goroutine
\* holding the write lock, never while a Reduce holds the read lock.
C4_LockOrdersAddAndReduce ==
    /\ [](\A p, q \in Procs : InAdd(p) => /\ writer = p
                                         /\ readers = {}
                                         /\ pc[q] # "rBody"
                                         /\ (InAdd(q) => q = p))
    /\ [][rwState' # rwState =>
            \E p \in Procs : /\ InAdd(p) /\ pc'[p] # pc[p]
                             /\ \A q \in Procs : pc[q] # "rBody"]_vars

\* C4 witness: two Reduce calls hold the read lock together after an Add returned.
C4_Witness ==
    /\ Cardinality(readers) >= 2
    /\ \A p \in readers : pc[p] = "rBody"
    /\ nAdds >= 1

\* C5: a Reduce call leaves offset, lastTime, size, interval, ignoreCurrent and the
\* Sum and Count of every bucket unchanged.
C5_ReduceMutatesNothing ==
    [][\A p \in Procs : (pc[p] = "rBody" \/ pc'[p] = "rBody") /\ pc'[p] # pc[p] =>
          UNCHANGED rwState]_vars

\* C5 witness: a Reduce ran while the whole window was stale and a bucket still
\* holds a count.
C5_Witness ==
    /\ red.done /\ red.slice = Slice(now) /\ red.visited = <<>>
    /\ span(now) = size
    /\ \E s \in Slots : buckets[s].Count > 0

\* an Add has returned and the clock has advanced by size * interval or more since
\* it returned
WindowElapsed == lastRet # NoTime /\ now - lastRet >= size * interval

\* C6 as stated: a Reduce after such an advance finds every bucket reset to Count = 0.
C6_AllBucketsResetAfterExpiry ==
    [][\A p \in Procs : (ReduceRuns(p) /\ WindowElapsed) =>
          \A s \in Slots : buckets'[s].Count = 0]_vars

\* C6 amended: a Reduce after such an advance visits no bucket, and resets none.
C6_NoBucketVisitedAfterExpiry ==
    [][\A p \in Procs : (ReduceRuns(p) /\ WindowElapsed) =>
          red'.visited = <<>> /\ buckets' = buckets]_vars

\* C6 witness: size * interval after the Add a Reduce has visited nothing and the
\* bucket still holds Count = 1.
C6_Witness ==
    /\ red.done /\ red.slice = Slice(now) /\ red.visited = <<>>
    /\ WindowElapsed /\ writer = NoProc
    /\ size = MaxSize
    /\ \E s \in Slots : buckets[s].Count = 1

\* the latest two Adds were made in consecutive time slices and the clock is in the later
AddsInConsecutiveSlices ==
    /\ prevSlice # NoTime
    /\ Slice(lastAt) = prevSlice + 1
    /\ Slice(now) = Slice(lastAt)

\* C7: with size >= 2 and ignoreCurrent = false, a Reduce in the slice of the second of
\* two Adds made one interval apart visits the bucket holding the first Add's value,
\* which is another bucket than the one holding the second Add's value.
C7_SlideKeepsPreviousSlot ==
    [][\A p \in Procs : (ReduceRuns(p) /\ size >= 2 /\ ~ignoreCurrent /\ AddsInConsecutiveSlices) =>
          \E s, t \in SeenSlots(red') :
              /\ s # t
              /\ prevSlice \in HeldSlices(s) /\ buckets[s].Count >= 1
              /\ Slice(lastAt) \in HeldSlices(t) /\ buckets[t].Count >= 1]_vars

\* C7 witness: such a Reduce has run and visited both buckets.
C7_Witness ==
    /\ red.done /\ red.slice = Slice(now) /\ writer = NoProc
    /\ size >= 2 /\ ~ignoreCurrent /\ AddsInConsecutiveSlices
    /\ \E i, j \in DOMAIN red.visited :
          /\ red.visited[i].slot # red.visited[j].slot
          /\ red.visited[i].Count = 1 /\ red.visited[j].Count = 1

\* C8: with ignoreCurrent = true, a Reduce in the time slice of the latest Add finds
\* span = 0, visits exactly size - 1 buckets and not the bucket at offset.
C8_IgnoreCurrentSkipsOffset ==
    [][\A p \in Procs : (ReduceRuns(p) /\ ignoreCurrent /\ lastAt # NoTime
                         /\ Slice(now) = Slice(lastAt)) =>
          /\ span(now) = 0
          /\ Len(red'.visited) = size - 1
          /\ Cardinality(SeenSlots(red')) = size - 1
          /\ offset \notin SeenSlots(red')]_vars

\* C8 witness: such a Reduce has run on a window of MaxSize buckets whose bucket at
\* offset holds the value just added.
C8_Witness ==
    /\ red.done /\ red.slice = Slice(now) /\ writer = NoProc
    /\ ignoreCurrent /\ size = MaxSize
    /\ lastAt # NoTime /\ Slice(now) = Slice(lastAt)
    /\ buckets[offset].Count >= 1
    /\ Len(red.visited) = size - 1
    /\ offset \notin SeenSlots(red)

\* exactly one Add has been called, it has returned, and the clock is in its slice
OneAddThisSlice ==
    /\ nAdds = 1
    /\ lastAt # NoTime
    /\ Slice(now) = Slice(lastAt)

\* C9: with ignoreCurrent = false, after exactly one Add(v) a Reduce in the same slice
\* visits size buckets, exactly one with Count = 1 and Sum = v, all others with
\* Count = 0 and Sum = 0.
C9_SingleAddVisible ==
    [][\A p \in Procs : (ReduceRuns(p) /\ ~ignoreCurrent /\ OneAddThisSlice) =>
          /\ Len(red'.visited) = size
          /\ Cardinality(SeenSlots(red')) = size
          /\ \E i \in DOMAIN red'.visited :
                /\ red'.visited[i].Count = 1 /\ red'.visited[i].Sum = sumArgs
                /\ \A j \in DOMAIN red'.visited \ {i} :
                      red'.visited[j].Count = 0 /\ red'.visited[j].Sum = 0]_vars

\* C9 witness: such a Reduce has run on a window of MaxSize buckets after Add(MaxValue).
C9_Witness ==
    /\ red.done /\ red.slice = Slice(now) /\ writer = NoProc
    /\ ~ignoreCurrent /\ OneAddThisSlice /\ size = MaxSize /\ sumArgs = MaxValue
    /\ Len(red.visited) = size
    /\ \E i \in DOMAIN red.visited : red.visited[i].Sum = MaxValue

\* C10: right after construction (no Add called, no interval elapsed), with
\* ignoreCurrent = false, a Reduce visits exactly size buckets, all with Sum = 0 and
\* Count = 0.
C10_FreshWindowAllZero ==
    [][\A p \in Procs : (ReduceRuns(p) /\ ~ignoreCurrent /\ nAdds = 0
                         /\ now - startTime < interval) =>
          /\ Len(red'.visited) = size
          /\ Cardinality(SeenSlots(red')) = size
          /\ \A i \in DOMAIN red'.visited :
                red'.visited[i].Sum = 0 /\ red'.visited[i].Count = 0]_vars

\* C10 witness: such a Reduce has run on a window of MaxSize buckets.
C10_Witness ==
    /\ red.done /\ ~ignoreCurrent /\ nAdds = 0
    /\ now - startTime < interval /\ size = MaxSize
    /\ Len(red.visited) = MaxSize

\* ---- construction ----
\* the sizes a caller passes to NewRollingWindow
SizeArgs == (-1)..MaxSize

\* the program before NewRollingWindow is called: no instance
InitNew ==
    /\ size = 0
    /\ interval = 0
    /\ ignoreCurrent = FALSE
    /\ now = StartTick
    /\ offset = 0
    /\ lastTime = NoTime
    /\ startTime = NoTime
    /\ buckets = newWindow(0)
    /\ held = newWindow(0)
    /\ writer = NoProc
    /\ readers = {}
    /\ pc = [p \in Procs |-> "new"]
    /\ call = [p \in Procs |-> NoCall]
    /\ lastAt = NoTime
    /\ lastRet = NoTime
    /\ prevSlice = NoTime
    /\ sumArgs = 0
    /\ nAdds = 0
    /\ adders = {}
    /\ red = NoReduce

\* NewRollingWindow clamping a size below 1 to 1 instead of panicking
NewRollingWindowClamps(n, ign) ==
    /\ \A p \in Procs : pc[p] = "new"
    /\ size' = IF n < 1 THEN 1 ELSE n
    /\ interval' = Interval
    /\ ignoreCurrent' = ign
    /\ offset' = 0
    /\ lastTime' = now
    /\ startTime' = now
    /\ buckets' = newWindow(size')
    /\ held' = [s \in 0..(size' - 1) |-> <<>>]
    /\ pc' = [p \in Procs |-> "idle"]
    /\ red' = NoReduce
    /\ UNCHANGED <<writer, readers, now, call, lastAt, lastRet, prevSlice, sumArgs, nAdds, adders>>

\* NewRollingWindow(n, interval, opts...): panic("size must be greater than 0") ends the
\* program; otherwise the instance, with IgnoreCurrentBucket() applied when ign
NewRollingWindow(n, ign) ==
    /\ \A p \in Procs : pc[p] = "new"
    /\ IF n < 1
       THEN /\ pc' = [p \in Procs |-> "panic"]
            /\ UNCHANGED <<rwState, startTime, held>>
       ELSE /\ size' = n
            /\ interval' = Interval
            /\ ignoreCurrent' = ign
            /\ offset' = 0
            /\ lastTime' = now
            /\ startTime' = now
            /\ buckets' = newWindow(n)
            /\ held' = [s \in 0..(n - 1) |-> <<>>]
            /\ pc' = [p \in Procs |-> "idle"]
    /\ red' = NoReduce
    /\ UNCHANGED <<writer, readers, now, call, lastAt, lastRet, prevSlice, sumArgs, nAdds, adders>>

NextNew ==
    \/ \E n \in SizeArgs, ign \in BOOLEAN : NewRollingWindow(n, ign)
    \/ Next

SpecNew == InitNew /\ [][NextNew]_vars

\* a goroutine inside an Add or Reduce call can take the call's next step
CallCanStep(p) ==
    /\ pc[p] = "aReset" => ENABLED AddReset(p)
    /\ pc[p] = "aAlign" => ENABLED AddAlign(p)
    /\ pc[p] = "aAdd" => ENABLED AddLoad(p)
    /\ pc[p] = "aStore" => ENABLED AddStore(p)
    /\ pc[p] = "rBody" => ENABLED ReduceBody(p)

\* C11: NewRollingWindow with size < 1 panics and leaves no instance; with size >= 1 it
\* returns an instance of exactly that many zeroed buckets; and on an instance no
\* goroutine ever panics and every running Add and Reduce can take its next step,
\* whatever the value and however far the clock has advanced.
C11_ConstructionAndTotality ==
    /\ [][\A n \in SizeArgs, ign \in BOOLEAN : NewRollingWindow(n, ign) =>
            IF n < 1
            THEN /\ \A p \in Procs : pc'[p] = "panic"
                 /\ size' = 0 /\ buckets' = newWindow(0)
            ELSE /\ \A p \in Procs : pc'[p] = "idle"
                 /\ size' = n /\ DOMAIN buckets' = 0..(n - 1)
                 /\ \A s \in 0..(n - 1) : buckets'[s] = NewBucket
                 /\ offset' = 0 /\ lastTime' = now /\ ignoreCurrent' = ign]_vars
    /\ []((\E p \in Procs : pc[p] = "panic") => size = 0 /\ nAdds = 0 /\ ~red.done)
    /\ [](size >= 1 => \A p \in Procs : pc[p] \notin {"new", "panic"} /\ CallCanStep(p))

\* C11 witness: NewRollingWindow has panicked and there is no instance.
C11_Witness ==
    /\ \A p \in Procs : pc[p] = "panic"
    /\ size = 0 /\ buckets = newWindow(0)
    /\ now > StartTick

\* ---- the order of a Reduce ----
\* the number of slots by which slot s lies behind rw.offset on the ring
AgeOf(s) == (offset - s + size) % size

\* C12: a Reduce calls fn on buckets of strictly decreasing age, the oldest bucket
\* not yet expired first, so on no bucket twice; the values held by an earlier visited
\* bucket were added in earlier time slices than those of a later visited one; the
\* bucket at offset is visited last, except that with ignoreCurrent and span = 0 it is
\* not visited.
C12_VisitsInChronologicalOrder ==
    [][\A p \in Procs : ReduceRuns(p) =>
          LET v == red'.visited
              skipped == ignoreCurrent /\ span(now) = 0
          IN  /\ \A i, k \in DOMAIN v : i < k =>
                    /\ AgeOf(v[i].slot) > AgeOf(v[k].slot)
                    /\ \A a \in HeldSlices(v[i].slot), b \in HeldSlices(v[k].slot) : a < b
              /\ Cardinality(SeenSlots(red')) = Len(v)
              /\ v # <<>> => AgeOf(v[1].slot) = size - 1 - span(now)
              /\ (v # <<>> /\ ~skipped) => v[Len(v)].slot = offset
              /\ skipped => offset \notin SeenSlots(red')]_vars

\* C12 witness: a Reduce on a window of MaxSize buckets has visited an older bucket
\* holding a value before the bucket at offset holding a later one.
C12_Witness ==
    /\ red.done /\ red.slice = Slice(now) /\ writer = NoProc /\ size = MaxSize
    /\ Len(red.visited) >= 2
    /\ red.visited[Len(red.visited)].slot = offset
    /\ red.visited[Len(red.visited)].Count >= 1
    /\ \E i \in 1..(Len(red.visited) - 1) :
          /\ red.visited[i].Count >= 1
          /\ \A a \in HeldSlices(red.visited[i].slot) : a < Slice(lastTime)

\* ---- what the buckets stand for ----
\* the time slices of the latest two Adds that returned
RecentAddSlices ==
    {x \in {prevSlice, IF lastAt = NoTime THEN NoTime ELSE Slice(lastAt)} : x # NoTime}

\* C13: whenever no Add is in progress, lastTime <= now, lastTime lies a whole number
\* of intervals after the construction time, and for every j in 0..size-1 the bucket
\* j slots behind offset holds exactly the values added in the time slice j before the
\* slice of lastTime: it holds no value of another slice, and it holds the values of
\* the latest Adds made in that slice.
C13_BucketsStandForTheirSlices ==
    (\A p \in Procs : ~InAdd(p)) =>
        /\ lastTime <= now
        /\ (lastTime - startTime) % interval = 0
        /\ \A j \in 0..(size - 1) :
              LET s == (offset - j + size) % size
              IN  /\ \A a \in HeldSlices(s) : a = Slice(lastTime) - j
                  /\ \A a \in RecentAddSlices : a = Slice(lastTime) - j => a \in HeldSlices(s)

\* ---- the buckets of a Reduce ----
\* the whole intervals elapsed since lastTime, and that number clamped to size
ElapsedIntervals == (now - lastTime) \div interval
ClampedSpan == IF ElapsedIntervals < size THEN ElapsedIntervals ELSE size

\* C14: with span the whole intervals elapsed since lastTime clamped to size, a Reduce
\* calls fn on exactly size - span buckets (size - 1 with ignoreCurrent and span = 0),
\* the consecutive slots from (offset + span + 1) mod size on, with the Sum and Count
\* they hold; on none when span = size; and with ignoreCurrent and 1 <= span < size
\* the bucket at offset is among them.
C14_ReduceVisitsSizeMinusSpan ==
    [][\A p \in Procs : ReduceRuns(p) =>
          LET v == red'.visited
              sp == ClampedSpan
          IN  /\ Len(v) = IF ignoreCurrent /\ sp = 0 THEN size - 1 ELSE size - sp
              /\ \A i \in DOMAIN v :
                    /\ v[i].slot = (offset + sp + i) % size
                    /\ v[i].Sum = buckets[v[i].slot].Sum
                    /\ v[i].Count = buckets[v[i].slot].Count
              /\ sp = size => v = <<>>
              /\ (ignoreCurrent /\ sp >= 1 /\ sp < size) => offset \in SeenSlots(red')]_vars

\* C14 witness: with ignoreCurrent, a Reduce one interval after the latest Add has
\* visited MaxSize - 1 buckets, the bucket at offset with its value among them.
C14_Witness ==
    /\ red.done /\ red.slice = Slice(now) /\ writer = NoProc
    /\ ignoreCurrent /\ size = MaxSize /\ ClampedSpan = 1
    /\ Len(red.visited) = size - 1
    /\ red.visited[1].slot = (offset + 2) % size
    /\ red.visited[Len(red.visited)].slot = offset
    /\ red.visited[Len(red.visited)].Count >= 1

\* ---- the frame of an Add ----
\* the sp slots that follow slot off on the ring
SlotsAfter(off, sp) == {(off + i) % size : i \in 1..sp}

\* goroutine p takes a step of an Add that found span = 0
ZeroSpanAddSteps(p) ==
    \/ pc[p] = "idle" /\ pc'[p] = "aAdd"
    \/ InAdd(p) /\ call[p].span = 0 /\ pc'[p] # pc[p]

\* C15: an Add that found span > 0 resets, in its slide, exactly the span buckets in
\* the slots (offset+1) mod size .. (offset+span) mod size, sets offset to
\* (offset + span) mod size and leaves every other bucket as it was, and its other
\* steps before the write change no bucket; the write changes only the bucket at
\* offset; an Add that found span = 0 changes neither offset nor lastTime, and no
\* bucket but the one at offset.
C15_AddFrame ==
    [][\A p \in Procs :
          /\ AddSlides(p) =>
                /\ call[p].span > 0
                /\ Cardinality(SlotsAfter(offset, call[p].span)) = call[p].span
                /\ \A s \in Slots : buckets'[s] = IF s \in SlotsAfter(offset, call[p].span)
                                                 THEN NewBucket ELSE buckets[s]
                /\ offset' = (offset + call[p].span) % size
          /\ (pc'[p] # pc[p] /\ pc'[p] \in {"aReset", "aAdd", "aStore"}) =>
                buckets' = buckets /\ offset' = offset
          /\ AddWrites(p) =>
                /\ offset' = offset /\ lastTime' = lastTime
                /\ \A s \in Slots \ {offset} : buckets'[s] = buckets[s]
                /\ buckets'[offset] # buckets[offset]
          /\ ZeroSpanAddSteps(p) =>
                /\ offset' = offset /\ lastTime' = lastTime
                /\ \A s \in Slots \ {offset} : buckets'[s] = buckets[s]]_vars

\* C15 witness: an Add has slid a window of MaxSize buckets by span = MaxSize - 1 and
\* the bucket that was at offset before the slide still holds its value.
C15_Witness ==
    \E p \in Procs :
        /\ pc[p] = "aAlign" /\ size = MaxSize /\ call[p].span = MaxSize - 1
        /\ buckets[(offset + 1) % size].Count >= 1
        /\ \A s \in Slots \ {(offset + 1) % size} : buckets[s] = NewBucket

\* ---- an Add on a stale window ----
\* C16: an Add called when size * interval or more has elapsed since lastTime finds
\* span = size; its slide resets every bucket and leaves offset where it was; and its
\* write leaves the bucket at offset with Count = 1 and Sum = v and every other bucket
\* zero.
C16_StaleWindowAddResetsAll ==
    [][\A p \in Procs :
          /\ (pc[p] = "idle" /\ pc'[p] \in {"aReset", "aAdd"}
                /\ now - lastTime >= size * interval) =>
                call'[p].span = size /\ pc'[p] = "aReset"
          /\ (AddSlides(p) /\ call[p].span = size) =>
                /\ offset' = offset
                /\ \A s \in Slots : buckets'[s] = NewBucket
          /\ (AddWrites(p) /\ call[p].span = size) =>
                /\ offset' = offset
                /\ buckets'[offset] = [Sum |-> call[p].v, Count |-> 1]
                /\ \A s \in Slots \ {offset} : buckets'[s] = NewBucket]_vars

\* C16 witness: on a window of MaxSize buckets the second Add has returned and only
\* the bucket at offset is non-zero: the bucket of the first Add was reset.
C16_Witness ==
    /\ \A p \in Procs : pc[p] = "idle"
    /\ size = MaxSize /\ nAdds = 2 /\ lastRet = now
    /\ now - startTime >= size * interval
    /\ buckets[offset].Count = 1
    /\ \A s \in Slots \ {offset} : buckets[s] = NewBucket

\* ---- index ranges ----
\* the slot indices the loop of updateOffset passes to resetBucket for a span of sp
ResetIndices(sp) == {(offset + i + 1) % size : i \in 0..(sp - 1)}

\* C17: in every reachable state 0 <= offset < size and the window has the slots
\* 0..size-1; span() returns a value in 0..size, now and in every running Add; the
\* index Add writes at, the indices the reset loop uses and the slots a Reduce visited
\* are slots of the window; and size never changes.
C17_IndicesInRange ==
    /\ [](/\ offset \in 0..(size - 1)
          /\ DOMAIN buckets = 0..(size - 1)
          /\ span(now) \in 0..size
          /\ \A p \in Procs : call[p].span \in 0..size
          /\ offset % size \in DOMAIN buckets
          /\ \A p \in Procs : pc[p] = "aReset" => ResetIndices(call[p].span) \subseteq DOMAIN buckets
          /\ SeenSlots(red) \subseteq DOMAIN buckets)
    /\ [][size' = size]_vars

\* C17 witness: a slide on a window of MaxSize buckets has wrapped offset around to
\* slot 0 from a later slot, which still holds a value.
C17_Witness ==
    \E p \in Procs :
        /\ pc[p] = "aAlign" /\ size = MaxSize /\ offset = 0
        /\ call[p].span \in 1..(size - 1)
        /\ buckets[(offset - call[p].span + size) % size].Count >= 1

\* ---- the two clock readings of a slide ----
\* the step in which goroutine p's Add reads the clock again and aligns lastTime
AddAligns(p) == pc[p] = "aAlign" /\ pc'[p] = "aAdd"

\* C18: in a slide with 0 < span < size, in which offset has advanced by span slots,
\* lastTime advances by span whole intervals, whatever the clock reads when lastTime
\* is aligned.
C18_OffsetAndLastTimeAdvanceTogether ==
    [][\A p \in Procs : (AddAligns(p) /\ 0 < call[p].span /\ call[p].span < size) =>
          lastTime' = lastTime + call[p].span * interval]_vars

\* ---- a window of one bucket ----
\* C20: with size = 1 and ignoreCurrent = true no Reduce calls fn on any bucket,
\* whatever was added and whatever the clock reads.
C20_OneBucketIgnoredVisitsNothing ==
    [][\A p \in Procs : (ReduceRuns(p) /\ size = 1 /\ ignoreCurrent) =>
          red'.visited = <<>>]_vars

\* C20 witness: on such a window a Reduce in the slice of an Add has visited nothing
\* while the bucket holds the value.
C20_Witness ==
    /\ red.done /\ red.slice = Slice(now) /\ red.visited = <<>>
    /\ size = 1 /\ ignoreCurrent /\ writer = NoProc
    /\ span(now) = 0
    /\ buckets[0].Count >= 1

\* ---- concurrent calls waiting for the lock ----
\* the calls goroutines have made at the start: none, Add(v) or Reduce(fn), each
\* waiting in rw.lock.Lock() or rw.lock.RLock()
StartCalls == [Procs -> {"idle", "aLock", "rLock"}]

\* a fresh RollingWindow on which a batch of concurrent calls has been made
InitFair ==
    /\ size \in 1..MaxSize
    /\ interval = Interval
    /\ ignoreCurrent \in BOOLEAN
    /\ now = StartTick
    /\ offset = 0
    /\ lastTime = now
    /\ startTime = now
    /\ buckets = newWindow(size)
    /\ held = [s \in 0..(size - 1) |-> <<>>]
    /\ writer = NoProc
    /\ readers = {}
    /\ pc \in StartCalls
    /\ Cardinality({p \in Procs : pc[p] = "aLock"}) <= MaxAdds
    /\ \E vs \in [Procs -> AddValues] :
          call = [p \in Procs |-> IF pc[p] = "aLock" THEN [NoCall EXCEPT !.v = vs[p]] ELSE NoCall]
    /\ nAdds = Cardinality({p \in Procs : pc[p] = "aLock"})
    /\ adders = {p \in Procs : pc[p] = "aLock"}
    /\ lastAt = NoTime
    /\ lastRet = NoTime
    /\ prevSlice = NoTime
    /\ sumArgs = 0
    /\ red = NoReduce

\* Add(v) is called and waits in rw.lock.Lock()
AddCall(p, v) ==
    /\ pc[p] = "idle"
    /\ nAdds < MaxAdds
    /\ nAdds' = nAdds + 1
    /\ adders' = adders \cup {p}
    /\ call' = [call EXCEPT ![p] = [NoCall EXCEPT !.v = v]]
    /\ pc' = [pc EXCEPT ![p] = "aLock"]
    /\ red' = NoReduce
    /\ UNCHANGED <<rwState, writer, readers, now, startTime, held, lastAt, lastRet, prevSlice, sumArgs>>

\* rw.lock.Lock() returns to a waiting Add; updateOffset reads span := rw.span()
AddLock(p) ==
    /\ pc[p] = "aLock"
    /\ CanLock
    /\ writer' = p
    /\ call' = [call EXCEPT ![p] = [v |-> call[p].v, span |-> span(now), at |-> now, b |-> NewBucket]]
    /\ pc' = [pc EXCEPT ![p] = IF span(now) <= 0 THEN "aAdd" ELSE "aReset"]
    /\ red' = NoReduce
    /\ UNCHANGED <<rwState, readers, now, history>>

\* rw.lock.RLock() returns to a waiting Reduce
ReduceLock(p) ==
    /\ pc[p] = "rLock"
    /\ CanRLock
    /\ readers' = readers \cup {p}
    /\ pc' = [pc EXCEPT ![p] = "rBody"]
    /\ red' = NoReduce
    /\ UNCHANGED <<rwState, writer, now, call, history>>

NextFair ==
    \/ Tick
    \/ \E p \in Procs, v \in AddValues : AddCall(p, v)
    \/ \E p \in Procs : AddLock(p)
    \/ \E p \in Procs : AddReset(p)
    \/ \E p \in Procs : AddAlign(p)
    \/ \E p \in Procs : AddLoad(p)
    \/ \E p \in Procs : AddStore(p)
    \/ \E p \in Procs : ReduceLock(p)
    \/ \E p \in Procs : ReduceBody(p)

\* every goroutine that can run does run, and a goroutine waiting for the lock gets it
\* once the lock stays free for it
Fairness ==
    \A p \in Procs :
        /\ WF_vars(AddLock(p))
        /\ WF_vars(AddReset(p))
        /\ WF_vars(AddAlign(p))
        /\ WF_vars(AddLoad(p))
        /\ WF_vars(AddStore(p))
        /\ WF_vars(ReduceLock(p))
        /\ WF_vars(ReduceBody(p))

SpecFair == InitFair /\ [][NextFair]_vars /\ Fairness

\* some goroutine can take a step of its call
SomeCallCanStep ==
    \E p \in Procs :
        \/ ENABLED AddLock(p) \/ ENABLED AddReset(p) \/ ENABLED AddAlign(p)
        \/ ENABLED AddLoad(p) \/ ENABLED AddStore(p)
        \/ ENABLED ReduceLock(p) \/ ENABLED ReduceBody(p)

\* C19: the reset loop of an Add runs span <= size times and changes at most size
\* buckets, and a Reduce calls fn at most size times, however many intervals have
\* elapsed; while a call is running or waiting some call can take a step; and every
\* call, waiting for the lock or holding it, eventually returns.
C19_BoundedWorkAndTermination ==
    /\ [][\A p \in Procs :
            /\ AddSlides(p) =>
                  /\ call[p].span <= size
                  /\ Cardinality({s \in Slots : buckets'[s] # buckets[s]}) <= size
            /\ ReduceRuns(p) => Len(red'.visited) <= size]_vars
    /\ []((\E p \in Procs : pc[p] # "idle") => SomeCallCanStep)
    /\ \A p \in Procs : (pc[p] # "idle") ~> (pc[p] = "idle")

\* C19 witness: more than size intervals after the latest slide, an Add that waited
\* for the lock has reset the buckets of a stale window while another call waits.
C19_Witness ==
    \E p, q \in Procs :
        /\ pc[p] = "aAlign" /\ call[p].span = size /\ ElapsedIntervals > size
        /\ pc[q] \in {"aLock", "rLock"}
====
